---- MODULE Spec2Model ----
(***************************************************************************)
(* Model of main.py: the posture-monitoring frame loop.                    *)
(*                                                                         *)
(* One step of the model is one whole iteration of `while cap.isOpened()`  *)
(* (a failed read, a frame without pose, a frame with pose), the exit of   *)
(* the loop, or the cleanup after it.  A library call that raises ends the *)
(* script where it stands: nothing catches it.                             *)
(*                                                                         *)
(* Angles are whole degrees.  np.mean is kept exact as a fraction          *)
(* [num, den], so "mean - 10" and the strict comparisons of line 104 are   *)
(* exact.  time.time() is a whole number of seconds that never decreases.  *)
(*                                                                         *)
(* calculate_angle is modelled on integer pixel points in fixed point:     *)
(* np.linalg.norm in thousandths (rounded down), so that the product of    *)
(* two norms is in millionths and the 1e-6 of line 20 is exactly 1; the    *)
(* cosine is the exact fraction dot / divisor; arccos followed by degrees  *)
(* is a whole number of degrees read off a cosine table in hundredths.     *)
(***************************************************************************)
EXTENDS Integers, Sequences, FiniteSets, TLC

VARIABLES
    pc,                           \* "loop", "cleanup", "done", or "crashed" (uncaught exception)
    cap_opened,                   \* cap.isOpened()
    stream_ended,                 \* environment: the camera delivers no more frames
    clock,                        \* environment: the last value time.time() returned
    calibration_shoulder_angles,  \* line 41
    calibration_neck_angles,      \* line 42
    calibration_frames,           \* line 43
    is_calibrated,                \* line 44
    shoulder_threshold,           \* line 46, a fraction [num, den]
    neck_threshold,               \* line 47, a fraction [num, den]
    last_alert_time,              \* line 50
    alerts,                       \* console: the timestamps of the alert lines printed (line 108)
    calibration_logs,             \* console: how many "Calibration complete" lines (line 93)
    frame,                        \* what the last iteration read and what it produced
    releases,                     \* how many times cap.release() was called (line 128)
    angle_call                    \* the last call of calculate_angle and what it computed

vars == <<pc, cap_opened, stream_ended, clock, calibration_shoulder_angles,
          calibration_neck_angles, calibration_frames, is_calibrated,
          shoulder_threshold, neck_threshold, last_alert_time, alerts,
          calibration_logs, frame, releases, angle_call>>

---------------------------------------------------------------------------
(* Program constants *)

CalibrationFrames == 30

ThresholdMargin == 10

alert_cooldown == 10

(* Bounds of the model *)

\* time.time() returns 0..MaxTime
MaxTime == 23

\* the first MaxVaried calibration samples are drawn freely; after them the
\* subject holds still and each sample repeats the one before it
MaxVaried == 2

\* the <<shoulder_angle, neck_angle>> a frame can show while calibrating / after it
CalibrationPoses == {<<80, 80>>, <<60, 70>>}

LivePoses == {<<80, 80>>, <<70, 70>>, <<60, 80>>, <<80, 60>>}

Keys == {"none", "q"}

---------------------------------------------------------------------------
(* Arithmetic *)

RECURSIVE SumSeq(_)
SumSeq(s) == IF s = <<>> THEN 0 ELSE s[1] + SumSeq(Tail(s))

\* np.mean(samples), exact
Mean(s) == [num |-> SumSeq(s), den |-> Len(s)]

\* a whole number as a fraction
Whole(n) == [num |-> n, den |-> 1]

\* angle < threshold, for a whole angle and a fraction with den > 0
Below(angle, threshold) == angle * threshold.den < threshold.num

---------------------------------------------------------------------------
(* The conditions and formulas of the loop body *)

\* line 83: if not is_calibrated and calibration_frames < 30
CollectingOffByOne(cal, n) == ~cal /\ n <= CalibrationFrames

Collecting(cal, n) == ~cal /\ n < CalibrationFrames

\* line 89: elif not is_calibrated
FinalizingAlways(cal, n) == ~Collecting(cal, n)

Finalizing(cal, n) == ~Collecting(cal, n) /\ ~cal

\* lines 90-91: np.mean(samples) - 10
ThresholdNoMargin(samples) == Mean(samples)

Threshold(samples) ==
    [num |-> Mean(samples).num - ThresholdMargin * Mean(samples).den,
     den |-> Mean(samples).den]

\* line 102: if is_calibrated
FeedbackUnguarded(cal) == TRUE

Feedback(cal) == cal

\* line 104: shoulder_angle < shoulder_threshold or neck_angle < neck_threshold
IsPoorNonStrict(sa, na, st, nt) == sa * st.den <= st.num \/ na * nt.den <= nt.num

IsPoor(sa, na, st, nt) == Below(sa, st) \/ Below(na, nt)

\* line 107: current_time - last_alert_time > alert_cooldown
AlertEligibleNonStrict(now, last) == now - last >= alert_cooldown

AlertEligible(now, last) == now - last > alert_cooldown

\* lines 109-110: if os.path.exists(sound_file): playsound(sound_file)
PlaysSoundUnchecked(exists) == TRUE

PlaysSound(exists) == exists

\* line 111: last_alert_time = current_time, inside the cooldown branch
LastAlertTimeNeverSet(fire, now, last) == last

LastAlertTime(fire, now, last) == IF fire THEN now ELSE last

---------------------------------------------------------------------------
(* calculate_angle, lines 11-22 *)

\* pixel coordinates are 0..GridMax
GridMax == 2

Points == (0..GridMax) \X (0..GridMax)

\* lines 17-18: a - b
Minus(p, q) == <<p[1] - q[1], p[2] - q[2]>>

\* np.dot
Dot(u, v) == u[1] * v[1] + u[2] * v[2]

\* the largest r in lo..hi with r * r <= n
RECURSIVE SqrtBetween(_, _, _)
SqrtBetween(n, lo, hi) ==
    IF lo = hi THEN lo
    ELSE LET mid == (lo + hi + 1) \div 2
         IN IF mid * mid <= n THEN SqrtBetween(n, mid, hi)
                              ELSE SqrtBetween(n, lo, mid - 1)

\* np.linalg.norm, in thousandths
Norm(v) == SqrtBetween(Dot(v, v) * 1000000, 0, 46340)

\* line 20: np.linalg.norm(ba) * np.linalg.norm(bc) + 1e-6, in millionths
DivisorNoEpsilon(ba, bc) == Norm(ba) * Norm(bc)

DivisorFirstNormTwice(ba, bc) == Norm(ba) * Norm(ba) + 1

Divisor(ba, bc) == Norm(ba) * Norm(bc) + 1

\* line 20: cosine_angle, as a fraction
CosineAngle(ba, bc) == [num |-> Dot(ba, bc) * 1000000, den |-> Divisor(ba, bc)]

\* line 21: np.clip(cosine_angle, -1.0, 1.0)
ClipMissing(c) == c

Clip(c) ==
    IF c.num > c.den THEN [num |-> 1, den |-> 1]
    ELSE IF c.num < -c.den THEN [num |-> -1, den |-> 1]
    ELSE c

\* cos of d degrees in hundredths (Bhaskara's formula, exact at 0, 60, 90, 120, 180)
CosHundredths(d) ==
    IF d <= 90 THEN ((32400 - 4 * d * d) * 100) \div (32400 + d * d)
    ELSE -(((32400 - 4 * (180 - d) * (180 - d)) * 100) \div (32400 + (180 - d) * (180 - d)))

\* cos(d) <= c
CosNotAbove(d, c) == CosHundredths(d) * c.den <= c.num * 100

\* the first angle of lo..hi whose cosine is not above c, given that hi is one
\* (the cosine falls as the angle grows)
RECURSIVE FirstAngle(_, _, _)
FirstAngle(c, lo, hi) ==
    IF lo = hi THEN lo
    ELSE LET mid == (lo + hi) \div 2
         IN IF CosNotAbove(mid, c) THEN FirstAngle(c, lo, mid)
                                   ELSE FirstAngle(c, mid + 1, hi)

\* lines 21-22: np.degrees(np.arccos(c)), in whole degrees; nan (-1) outside [-1, 1]
ArccosDegrees(c) ==
    IF c.num > c.den \/ ~CosNotAbove(180, c) THEN -1 ELSE FirstAngle(c, 0, 180)

\* lines 11-22
calculate_angle(a, b, c) ==
    ArccosDegrees(Clip(CosineAngle(Minus(a, b), Minus(c, b))))

\* lines 77-78
ShoulderMid(left_shoulder, right_shoulder) ==
    <<(left_shoulder[1] + right_shoulder[1]) \div 2,
      (left_shoulder[2] + right_shoulder[2]) \div 2>>

NoCall ==
    [called |-> FALSE, a |-> <<0, 0>>, b |-> <<0, 0>>, c |-> <<0, 0>>,
     dot |-> 0, divisor |-> 1, cosine |-> [num |-> 0, den |-> 1], angle |-> 0]

\* what a call calculate_angle(a, b, c) computes
Call(a, b, c) ==
    [called |-> TRUE, a |-> a, b |-> b, c |-> c,
     dot |-> Dot(Minus(a, b), Minus(c, b)),
     divisor |-> Divisor(Minus(a, b), Minus(c, b)),
     cosine |-> Clip(CosineAngle(Minus(a, b), Minus(c, b))),
     angle |-> calculate_angle(a, b, c)]

---------------------------------------------------------------------------
(* The record of an iteration *)

NoFrame ==
    [ret |-> FALSE, pose |-> FALSE, shoulder_angle |-> 0, neck_angle |-> 0,
     key |-> "none", polled |-> FALSE, progress |-> 0, finalized |-> FALSE,
     status |-> "none", alert |-> FALSE, played |-> FALSE,
     sound_file |-> "unchecked", raised |-> FALSE]

\* the <<shoulder_angle, neck_angle>> a frame with pose can show in the current state
PoseInputs ==
    IF Collecting(is_calibrated, calibration_frames)
    THEN IF calibration_frames \in 1..Len(calibration_shoulder_angles)
            /\ calibration_frames \in 1..Len(calibration_neck_angles)
            /\ calibration_frames >= MaxVaried
         THEN {<<calibration_shoulder_angles[calibration_frames],
                 calibration_neck_angles[calibration_frames]>>}
         ELSE CalibrationPoses
    ELSE LivePoses

---------------------------------------------------------------------------
Init ==
    /\ pc = "loop"
    /\ cap_opened \in BOOLEAN
    /\ stream_ended = FALSE
    /\ clock = 0
    /\ calibration_shoulder_angles = <<>>
    /\ calibration_neck_angles = <<>>
    /\ calibration_frames = 0
    /\ is_calibrated = FALSE
    /\ shoulder_threshold = Whole(0)
    /\ neck_threshold = Whole(0)
    /\ last_alert_time = 0
    /\ alerts = <<>>
    /\ calibration_logs = 0
    /\ frame = NoFrame
    /\ releases = 0
    /\ angle_call = NoCall

\* lines 56-59: ret is False, `continue`: nothing else of the body runs
ReadFail(ended, closed, key) ==
    /\ pc = "loop"
    /\ cap_opened
    /\ stream_ended => ended
    /\ stream_ended' = ended
    /\ cap_opened' = ~closed
    /\ frame' = [NoFrame EXCEPT !.key = key]
    /\ UNCHANGED <<angle_call, pc, clock, calibration_shoulder_angles, calibration_neck_angles,
                   calibration_frames, is_calibrated, shoulder_threshold,
                   neck_threshold, last_alert_time, alerts, calibration_logs,
                   releases>>

\* lines 56-65, 122-125: a frame in which no pose is detected
FrameNoPoseCounted(key) ==
    /\ pc = "loop"
    /\ cap_opened
    /\ ~stream_ended
    /\ frame' = [NoFrame EXCEPT !.ret = TRUE, !.key = key, !.polled = TRUE]
    /\ pc' = IF key = "q" THEN "cleanup" ELSE "loop"
    /\ calibration_frames' =
          IF Collecting(is_calibrated, calibration_frames)
          THEN calibration_frames + 1 ELSE calibration_frames
    /\ UNCHANGED <<angle_call, cap_opened, stream_ended, clock,
                   calibration_shoulder_angles, calibration_neck_angles, is_calibrated,
                   shoulder_threshold, neck_threshold, last_alert_time, alerts,
                   calibration_logs, releases>>

FrameNoPose(key) ==
    /\ pc = "loop"
    /\ cap_opened
    /\ ~stream_ended
    /\ frame' = [NoFrame EXCEPT !.ret = TRUE, !.key = key, !.polled = TRUE]
    /\ pc' = IF key = "q" THEN "cleanup" ELSE "loop"
    /\ UNCHANGED <<angle_call, cap_opened, stream_ended, clock, calibration_shoulder_angles,
                   calibration_neck_angles, calibration_frames, is_calibrated,
                   shoulder_threshold, neck_threshold, last_alert_time, alerts,
                   calibration_logs, releases>>

\* lines 56-63: pose.process (or any library call before it) raises
FrameRaises ==
    /\ pc = "loop"
    /\ cap_opened
    /\ ~stream_ended
    /\ frame' = [NoFrame EXCEPT !.ret = TRUE, !.raised = TRUE]
    /\ pc' = "crashed"
    /\ UNCHANGED <<angle_call, cap_opened, stream_ended, clock, calibration_shoulder_angles,
                   calibration_neck_angles, calibration_frames, is_calibrated,
                   shoulder_threshold, neck_threshold, last_alert_time, alerts,
                   calibration_logs, releases>>

\* lines 56-125: a frame with a detected pose
FramePose(sa, na, now, exists, raised, key) ==
    LET collecting == Collecting(is_calibrated, calibration_frames)
        finalizing == Finalizing(is_calibrated, calibration_frames)
        cal        == IF finalizing THEN TRUE ELSE is_calibrated
        st         == IF finalizing THEN Threshold(calibration_shoulder_angles)
                                    ELSE shoulder_threshold
        nt         == IF finalizing THEN Threshold(calibration_neck_angles)
                                    ELSE neck_threshold
        feedback   == Feedback(cal)
        poor       == feedback /\ IsPoor(sa, na, st, nt)
        fire       == poor /\ AlertEligible(now, last_alert_time)
        attempt    == fire /\ PlaysSound(exists)
    IN
    /\ pc = "loop"
    /\ cap_opened
    /\ ~stream_ended
    /\ <<sa, na>> \in PoseInputs
    \* line 103: time.time() is read only when the feedback branch runs
    /\ IF feedback THEN now >= clock ELSE now = clock
    \* line 109: os.path.exists is asked only when an alert fires
    /\ fire \/ ~exists
    \* line 110: playsound is called, and can raise, only when the file exists
    /\ attempt \/ ~raised
    /\ calibration_shoulder_angles' =
          IF collecting THEN Append(calibration_shoulder_angles, sa)
                        ELSE calibration_shoulder_angles
    /\ calibration_neck_angles' =
          IF collecting THEN Append(calibration_neck_angles, na)
                        ELSE calibration_neck_angles
    /\ calibration_frames' =
          IF collecting THEN calibration_frames + 1 ELSE calibration_frames
    /\ shoulder_threshold' = st
    /\ neck_threshold' = nt
    /\ is_calibrated' = cal
    /\ calibration_logs' = IF finalizing THEN calibration_logs + 1 ELSE calibration_logs
    /\ clock' = now
    \* line 111 is not reached when playsound raises
    /\ last_alert_time' = LastAlertTime(fire /\ ~raised, now, last_alert_time)
    /\ alerts' = IF fire THEN Append(alerts, now) ELSE alerts
    /\ frame' = [ret |-> TRUE, pose |-> TRUE, shoulder_angle |-> sa, neck_angle |-> na,
                 key |-> key, polled |-> ~raised,
                 progress |-> IF collecting THEN calibration_frames + 1 ELSE 0,
                 finalized |-> finalizing,
                 status |-> IF ~feedback THEN "none"
                            ELSE IF poor THEN "Poor Posture" ELSE "Good Posture",
                 alert |-> fire,
                 played |-> attempt /\ ~raised,
                 sound_file |-> IF ~fire THEN "unchecked"
                                ELSE IF exists THEN "present" ELSE "absent",
                 raised |-> raised]
    /\ pc' = IF raised THEN "crashed" ELSE IF key = "q" THEN "cleanup" ELSE "loop"
    /\ UNCHANGED <<angle_call, cap_opened, stream_ended, releases>>

\* line 56: cap.isOpened() is False
LoopExit ==
    /\ pc = "loop"
    /\ ~cap_opened
    /\ pc' = "cleanup"
    /\ UNCHANGED <<angle_call, cap_opened, stream_ended, clock, calibration_shoulder_angles,
                   calibration_neck_angles, calibration_frames, is_calibrated,
                   shoulder_threshold, neck_threshold, last_alert_time, alerts,
                   calibration_logs, frame, releases>>

\* lines 128-129
Cleanup ==
    /\ pc = "cleanup"
    /\ cap_opened' = FALSE
    /\ releases' = releases + 1
    /\ pc' = "done"
    /\ UNCHANGED <<angle_call, stream_ended, clock, calibration_shoulder_angles,
                   calibration_neck_angles, calibration_frames, is_calibrated,
                   shoulder_threshold, neck_threshold, last_alert_time, alerts,
                   calibration_logs, frame>>

Next ==
    \/ \E ended \in BOOLEAN, closed \in BOOLEAN, key \in Keys : ReadFail(ended, closed, key)
    \/ \E key \in Keys : FrameNoPose(key)
    \/ \E pose \in CalibrationPoses \cup LivePoses, now \in clock..MaxTime,
          exists \in BOOLEAN, raised \in BOOLEAN, key \in Keys :
             FramePose(pose[1], pose[2], now, exists, raised, key)
    \/ FrameRaises
    \/ LoopExit
    \/ Cleanup

Spec == Init /\ [][Next]_vars

\* the interpreter keeps running the program
FairSpec == Spec /\ WF_vars(Next)

---------------------------------------------------------------------------
(* calculate_angle on its own: one call on points of the grid, or one of   *)
(* the two calls the loop makes from the landmarks (lines 79-80)           *)

program_vars == <<pc, cap_opened, stream_ended, clock, calibration_shoulder_angles,
                  calibration_neck_angles, calibration_frames, is_calibrated,
                  shoulder_threshold, neck_threshold, last_alert_time, alerts,
                  calibration_logs, frame, releases>>

CalculateAngle(a, b, c) ==
    /\ ~angle_call.called
    /\ angle_call' = Call(a, b, c)
    /\ UNCHANGED program_vars

\* line 79
ShoulderAngle(left_shoulder, right_shoulder) ==
    /\ ~angle_call.called
    /\ angle_call' = Call(left_shoulder,
                          ShoulderMid(left_shoulder, right_shoulder),
                          <<ShoulderMid(left_shoulder, right_shoulder)[1], 0>>)
    /\ UNCHANGED program_vars

\* line 80
NeckAngle(left_ear, left_shoulder) ==
    /\ ~angle_call.called
    /\ angle_call' = Call(left_ear, left_shoulder, <<left_shoulder[1], 0>>)
    /\ UNCHANGED program_vars

AngleNext ==
    \/ \E a \in Points, b \in Points, c \in Points : CalculateAngle(a, b, c)
    \/ \E left_shoulder \in Points, right_shoulder \in Points :
          ShoulderAngle(left_shoulder, right_shoulder)
    \/ \E left_ear \in Points, left_shoulder \in Points :
          NeckAngle(left_ear, left_shoulder)

AngleSpec == Init /\ [][AngleNext]_vars

---------------------------------------------------------------------------
(* Shorthands of the properties *)

AllEqual(s, v) == \A i \in 1..Len(s) : s[i] = v

PoorFrame == frame.status = "Poor Posture"

---------------------------------------------------------------------------
(* C1: any two fired alerts are strictly more than 10 seconds apart, however *)
(* many poor-posture frames lie between them (so a poor frame exactly 10     *)
(* seconds after a fired alert fires nothing).                               *)
C1_AlertsSpaced ==
    \A i \in 1..Len(alerts) : \A j \in 1..Len(alerts) :
        i < j => alerts[j] - alerts[i] > 10

\* two alerts have fired, and the frame after the second one is poor and suppressed
C1_Witness ==
    /\ Len(alerts) = 2
    /\ PoorFrame
    /\ ~frame.alert

(* C2: the first poor-posture frame of a session always fires an alert,      *)
(* whatever its timestamp; a poor frame 5 seconds after a fired alert does    *)
(* not fire; a poor frame 11 seconds after the last fired alert fires.        *)
C2_FirstPoorFrameFires ==
    /\ PoorFrame => alerts # <<>>
    /\ (PoorFrame /\ frame.alert /\ Len(alerts) >= 2)
          => alerts[Len(alerts)] - alerts[Len(alerts) - 1] # 5
    /\ (PoorFrame /\ ~frame.alert /\ alerts # <<>>)
          => clock - alerts[Len(alerts)] # 11

(* C3: a status and an alert are produced only in frames in which            *)
(* is_calibrated is true; before that a frame with pose only collects a       *)
(* sample, and no alert has fired nor has last_alert_time changed.            *)
C3_FeedbackOnlyWhenCalibrated ==
    /\ (frame.status # "none" \/ frame.alert \/ frame.played) => is_calibrated
    /\ ~is_calibrated =>
          /\ frame.status = "none"
          /\ alerts = <<>>
          /\ last_alert_time = 0
          /\ frame.pose => (frame.progress = calibration_frames /\ frame.progress >= 1)

\* the 30th sample has just been collected: still no status
C3_Witness ==
    /\ ~is_calibrated
    /\ frame.pose
    /\ frame.progress = 30

(* C4: an iteration without a detected pose (or with a failed read) appends  *)
(* no calibration sample, and the thresholds are computed only when exactly   *)
(* 30 samples are in each calibration buffer.                                 *)
C4_ExactlyThirtySamples ==
    /\ [](frame.finalized =>
            /\ Len(calibration_shoulder_angles) = 30
            /\ Len(calibration_neck_angles) = 30
            /\ calibration_frames = 30)
    /\ [][(~frame'.pose /\ frame' # frame) =>
            /\ calibration_shoulder_angles' = calibration_shoulder_angles
            /\ calibration_neck_angles' = calibration_neck_angles
            /\ calibration_frames' = calibration_frames]_vars

\* the frame that computed the thresholds
C4_Witness ==
    /\ frame.finalized
    /\ Len(calibration_shoulder_angles) = 30
    /\ Len(calibration_neck_angles) = 30

(* C5: once calibrated, each threshold is the mean of the 30 samples of its  *)
(* own buffer minus 10; the angles of the finalizing frame are in neither     *)
(* buffer; 30 samples of 80 give the threshold 70.                            *)
C5_ThresholdIsMeanMinusTen ==
    is_calibrated =>
        /\ Len(calibration_shoulder_angles) = 30
        /\ Len(calibration_neck_angles) = 30
        /\ shoulder_threshold.den = 30
        /\ neck_threshold.den = 30
        /\ shoulder_threshold.num + 10 * 30 = SumSeq(calibration_shoulder_angles)
        /\ neck_threshold.num + 10 * 30 = SumSeq(calibration_neck_angles)
        /\ AllEqual(calibration_shoulder_angles, 80) => shoulder_threshold.num = 70 * 30
        /\ AllEqual(calibration_neck_angles, 80) => neck_threshold.num = 70 * 30

\* finalization over buffers that are not constant and differ from each other
C5_Witness ==
    /\ frame.finalized
    /\ ~AllEqual(calibration_shoulder_angles, calibration_shoulder_angles[1])
    /\ calibration_shoulder_angles # calibration_neck_angles
    /\ frame.shoulder_angle # calibration_shoulder_angles[30]

(* C6: calibration completes once and for all: is_calibrated never goes      *)
(* back to false, the thresholds and the buffers never change afterwards, and *)
(* the calibration-complete line is printed exactly once.                     *)
C6_CalibratedIsTerminal ==
    /\ [](calibration_logs = IF is_calibrated THEN 1 ELSE 0)
    /\ [][is_calibrated =>
            /\ is_calibrated'
            /\ shoulder_threshold' = shoulder_threshold
            /\ neck_threshold' = neck_threshold
            /\ calibration_shoulder_angles' = calibration_shoulder_angles
            /\ calibration_neck_angles' = calibration_neck_angles
            /\ calibration_frames' = calibration_frames
            /\ calibration_logs' = calibration_logs]_vars

\* a frame with pose processed after the frame that finalized
C6_Witness ==
    /\ is_calibrated
    /\ frame.pose
    /\ ~frame.finalized

(* C7: in a calibrated frame with pose the status is "Poor Posture" exactly  *)
(* when shoulder_angle < shoulder_threshold or neck_angle < neck_threshold    *)
(* (strictly), and "Good Posture" otherwise.                                  *)
C7_StatusIsStrictComparison ==
    (is_calibrated /\ frame.pose) =>
        /\ frame.status \in {"Poor Posture", "Good Posture"}
        /\ PoorFrame <=>
              \/ frame.shoulder_angle * shoulder_threshold.den < shoulder_threshold.num
              \/ frame.neck_angle * neck_threshold.den < neck_threshold.num

\* an angle equal to its threshold, while an alert is still in its cooldown: good
C7_Witness ==
    /\ is_calibrated
    /\ frame.pose
    /\ frame.shoulder_angle * shoulder_threshold.den = shoulder_threshold.num
    /\ frame.neck_angle * neck_threshold.den = neck_threshold.num
    /\ frame.status = "Good Posture"
    /\ alerts # <<>>
    /\ clock - last_alert_time <= 10

(* C8: after 30 frames with shoulder_angle = 80 and neck_angle = 80, the     *)
(* next frame with pose, with shoulder_angle = 60, has the status             *)
(* "Poor Posture" and exactly one alert has fired in total.                   *)
C8_EndToEnd ==
    (/\ frame.finalized
     /\ AllEqual(calibration_shoulder_angles, 80)
     /\ AllEqual(calibration_neck_angles, 80)
     /\ frame.shoulder_angle = 60)
        => (PoorFrame /\ Len(alerts) = 1)

(* C9: once the camera stream is exhausted (every read fails from then on),  *)
(* the loop eventually exits and the cleanup runs.                            *)
C9_ExhaustionTerminates == stream_ended ~> (pc = "done")

(* C10: the quit key is polled in every iteration: after an iteration in     *)
(* which q was pressed the loop has ended.                                    *)
C10_QuitEndsTheIteration == frame.key = "q" => pc # "loop"

(* C11: the camera is released exactly once on every way the loop can end,   *)
(* an exception raised inside an iteration included: no terminated state has  *)
(* the camera still held.                                                     *)
C11_ReleasedExactlyOnce ==
    /\ releases <= 1
    /\ pc \in {"done", "crashed"} => (releases = 1 /\ ~cap_opened)

(* C12: when an alert fires and alert.wav is absent, playsound is not        *)
(* called and nothing raises, the alert line is still printed, the frame      *)
(* still shows "Poor Posture", and the loop goes on to the next frame.        *)
C12_MissingSoundIsGraceful ==
    (frame.alert /\ frame.sound_file = "absent") =>
        /\ ~frame.played
        /\ ~frame.raised
        /\ pc # "crashed"
        /\ PoorFrame
        /\ alerts # <<>>
        /\ alerts[Len(alerts)] = clock
        /\ frame.polled
        /\ frame.key = "none" => pc = "loop"

\* an alert without its sound file, the loop still running
C12_Witness ==
    /\ frame.alert
    /\ frame.sound_file = "absent"
    /\ pc = "loop"

(* C13: an iteration whose read fails, or in which no pose is detected,      *)
(* does not end the script and changes no session state: buffers,             *)
(* calibration_frames, is_calibrated, thresholds and last_alert_time keep     *)
(* their values, and it produces no status, alert or progress indicator.      *)
C13_SkippedFrameChangesNothing ==
    [][(~frame'.pose /\ ~frame'.raised) =>
         /\ pc' # "crashed"
         /\ calibration_shoulder_angles' = calibration_shoulder_angles
         /\ calibration_neck_angles' = calibration_neck_angles
         /\ calibration_frames' = calibration_frames
         /\ is_calibrated' = is_calibrated
         /\ shoulder_threshold' = shoulder_threshold
         /\ neck_threshold' = neck_threshold
         /\ last_alert_time' = last_alert_time
         /\ alerts' = alerts
         /\ calibration_logs' = calibration_logs
         /\ frame'.status = "none"
         /\ ~frame'.alert
         /\ frame'.progress = 0]_vars

\* a frame without pose has just been processed in the middle of calibration
C13_Witness ==
    /\ frame.ret
    /\ ~frame.pose
    /\ ~frame.raised
    /\ calibration_frames \in 1..29

(* C16: last_alert_time changes only in a frame in which an alert fires and  *)
(* is then that frame's timestamp, with or without the sound file; it never   *)
(* decreases.                                                                 *)
C16_LastAlertTimeFollowsAlerts ==
    /\ [][last_alert_time' # last_alert_time =>
            /\ frame'.alert
            /\ last_alert_time' = clock'
            /\ last_alert_time' > last_alert_time]_vars
    /\ []((frame.alert /\ ~frame.raised) => last_alert_time = clock)
    /\ [](frame.status = "Good Posture" => last_alert_time <= clock)

\* an alert whose sound file is missing has started a second cooldown window
C16_Witness ==
    /\ frame.alert
    /\ frame.sound_file = "absent"
    /\ Len(alerts) = 2
    /\ last_alert_time = clock

(* C17: calibration_frames is the length of both buffers and lies in 0..30;  *)
(* is_calibrated implies calibration_frames = 30; while is_calibrated is      *)
(* false both thresholds are still 0.                                         *)
C17_CalibrationCounters ==
    /\ calibration_frames = Len(calibration_shoulder_angles)
    /\ calibration_frames = Len(calibration_neck_angles)
    /\ calibration_frames \in 0..30
    /\ is_calibrated => calibration_frames = 30
    /\ ~is_calibrated => (/\ shoulder_threshold.num = 0
                          /\ neck_threshold.num = 0)

\* all 30 samples are in, the thresholds are not computed yet
C17_Witness ==
    /\ ~is_calibrated
    /\ calibration_frames = 30
    /\ Len(calibration_neck_angles) = 30

(* C14: calculate_angle(A, B, C) = calculate_angle(C, B, A) for all points   *)
(* of the grid: the dot product and the divisor are the same for both orders. *)
C14_AngleIsSymmetric ==
    angle_call.called =>
        LET ba == Minus(angle_call.a, angle_call.b)
            bc == Minus(angle_call.c, angle_call.b)
        IN /\ angle_call.angle = calculate_angle(angle_call.c, angle_call.b, angle_call.a)
           /\ angle_call.dot = Dot(bc, ba)
           /\ angle_call.divisor = Divisor(bc, ba)

\* a call whose two vectors have different lengths and are not at a right angle
C14_Witness ==
    /\ angle_call.called
    /\ Norm(Minus(angle_call.a, angle_call.b)) # Norm(Minus(angle_call.c, angle_call.b))
    /\ angle_call.dot # 0
    /\ angle_call.angle \notin {0, 90, 180}

(* C15: calculate_angle never fails: for all points, a zero-length vector    *)
(* included, the divisor is strictly positive, the clipped cosine lies in     *)
(* [-1, 1] and the angle returned lies in [0, 180] degrees.                   *)
C15_AngleIsDefined ==
    angle_call.called =>
        /\ angle_call.divisor > 0
        /\ angle_call.cosine.den > 0
        /\ angle_call.cosine.num <= angle_call.cosine.den
        /\ angle_call.cosine.num >= -angle_call.cosine.den
        /\ angle_call.angle \in 0..180

\* a call with a zero-length vector, as line 79 makes for shoulders on the top row
C15_Witness ==
    /\ angle_call.called
    /\ angle_call.c = angle_call.b
    /\ angle_call.a # angle_call.b
    /\ angle_call.b[2] = 0
    /\ angle_call.divisor = 1

====
